---- MODULE Spec2Model ----
(***************************************************************************)
(* Model of the context window builder (backend/context_builder.py) and of *)
(* the streaming generation sessions (backend/handlers.py).                *)
(*                                                                         *)
(* A text is a sequence of tokens: the tokenizer (tiktoken) is external,   *)
(* so count_tokens(text) is the length of the token sequence.              *)
(* An Optional[str] is a record [some, text]; None is NoneText.            *)
(*                                                                         *)
(* The streaming part has one websocket connection, which stays open, and  *)
(* one step per stretch of code between two awaits: an await is where the  *)
(* event loop may run the handler or another task.                         *)
(***************************************************************************)
EXTENDS Integers, Sequences, FiniteSets, TLC

\* ------------------------------------------------------------------------
\* Bounds of the model
\* ------------------------------------------------------------------------
MaxMsgs == 3
MaxStreamTokens == 2
MaxRequests == 2
\* number of _summarize_messages calls made on one builder
MaxSummarize == 2
\* number of turns in a turn set handed to _summarize_messages
MaxSumTurns == 1
\* number of tokens the upstream yields to one long generation
MaxLoopTokens == 21

\* ------------------------------------------------------------------------
\* Texts and the token counter
\* ------------------------------------------------------------------------
NoneText == [some |-> FALSE, text |-> <<>>]

Some(t) == [some |-> TRUE, text |-> t]

\* Python truthiness of an Optional[str]: None and "" are both false
Truthy(o) == o.some /\ o.text # <<>>

\* mutant: the counter has no case for the empty text and never answers 0
CountTokensAtLeastOne(text) == IF Len(text) > 1 THEN Len(text) ELSE 1

count_tokens(text) == IF text = <<>> THEN 0 ELSE Len(text)

format_tokens == 3

Max(a, b) == IF a >= b THEN a ELSE b

Min(a, b) == IF a <= b THEN a ELSE b

\* Python seq[start:] for any integer start (negative counts from the end)
PySliceFrom(seq, start) ==
  LET n == Len(seq)
      s == IF start < 0 THEN Max(n + start, 0) ELSE Min(start, n)
  IN SubSeq(seq, s + 1, n)

\* Python seq[:stop] for a non-negative stop
PySliceTo(seq, stop) == SubSeq(seq, 1, Min(stop, Len(seq)))

InSeq(x, seq) == \E i \in 1..Len(seq) : seq[i] = x

\* "".join(parts); the sequence is split in halves to keep the evaluation
\* shallow on long sequences
RECURSIVE Flatten(_)
Flatten(seqs) ==
  IF seqs = <<>> THEN <<>>
  ELSE IF Len(seqs) = 1 THEN seqs[1]
  ELSE LET half == Len(seqs) \div 2
       IN Flatten(SubSeq(seqs, 1, half)) \o Flatten(SubSeq(seqs, half + 1, Len(seqs)))

\* ------------------------------------------------------------------------
\* ContextBuilder
\* ------------------------------------------------------------------------
Message(role, content, token_count) ==
  [role |-> role, content |-> content, token_count |-> token_count]

\* a turn object that also carries the id attribute _get_cache_key reads (as
\* the store's Message does); an empty id is falsy
IdMessage(id, role, content, token_count) ==
  [id |-> id, role |-> role, content |-> content, token_count |-> token_count]

DefaultConfig ==
  [max_context_tokens |-> 8192, min_preserved_tokens |-> 1024,
   max_messages_before_summary |-> 20, enable_summarization |-> TRUE,
   response_reserve_tokens |-> 1024]

count_message_tokens(message) ==
  count_tokens(message.content) + count_tokens(<<message.role>>) + format_tokens

\* the sum of the turns' costs (split in halves, as Flatten)
RECURSIVE SumMessageTokens(_)
SumMessageTokens(messages) ==
  IF messages = <<>> THEN 0
  ELSE IF Len(messages) = 1 THEN count_message_tokens(messages[1])
  ELSE LET half == Len(messages) \div 2
       IN SumMessageTokens(SubSeq(messages, 1, half))
            + SumMessageTokens(SubSeq(messages, half + 1, Len(messages)))

system_prompt_tokens(system_prompt) ==
  IF Truthy(system_prompt) THEN count_tokens(system_prompt.text) + 3 ELSE 0

count_context_tokens(messages, system_prompt) ==
  system_prompt_tokens(system_prompt) + SumMessageTokens(messages)

\* the loop "for message in reversed(messages)": i is the next index to look
\* at, the value is the index of the oldest message kept
RECURSIVE WalkNewestFirst(_, _, _, _)
WalkNewestFirst(messages, i, current_tokens, available_tokens) ==
  IF i = 0 THEN 1
  ELSE IF current_tokens + count_message_tokens(messages[i]) <= available_tokens
       THEN WalkNewestFirst(messages, i - 1,
                            current_tokens + count_message_tokens(messages[i]),
                            available_tokens)
       ELSE i + 1

\* mutant: the walk keeps every turn, whatever it costs
KeepEveryTurn(messages, available_tokens) == messages

\* mutant: the walk gives up one turn before the first that overflows
KeepNewestOneShort(messages, available_tokens) ==
  LET first == WalkNewestFirst(messages, Len(messages), 0, available_tokens)
  IN SubSeq(messages, Min(first + 1, Len(messages) + 1), Len(messages))

KeepNewest(messages, available_tokens) ==
  SubSeq(messages, WalkNewestFirst(messages, Len(messages), 0, available_tokens),
         Len(messages))

\* mutant: the cap keeps the oldest turns of the window
CapToOldest(result, cap) == PySliceTo(result, cap)

CapToNewest(result, cap) == PySliceFrom(result, 0 - cap)

\* mutant: the window does not reserve the system prompt's tokens
SlidingWindowNoReserve(messages, max_tokens, system_prompt, config) ==
  LET result == KeepNewest(messages, max_tokens)
  IN IF Len(result) > config.max_messages_before_summary
     THEN CapToNewest(result, config.max_messages_before_summary)
     ELSE result

_apply_sliding_window(messages, max_tokens, system_prompt, config) ==
  LET available_tokens == max_tokens - system_prompt_tokens(system_prompt)
      result == KeepNewest(messages, available_tokens)
  IN IF Len(result) > config.max_messages_before_summary
     THEN CapToNewest(result, config.max_messages_before_summary)
     ELSE result

\* the loop of _trim_to_tokens walks the list from its first element
RECURSIVE TrimWalk(_, _, _, _)
TrimWalk(messages, i, current_tokens, max_tokens) ==
  IF i > Len(messages) THEN Len(messages)
  ELSE IF current_tokens + count_message_tokens(messages[i]) <= max_tokens
       THEN TrimWalk(messages, i + 1,
                     current_tokens + count_message_tokens(messages[i]), max_tokens)
       ELSE i - 1

_trim_to_tokens(messages, max_tokens) ==
  SubSeq(messages, 1, TrimWalk(messages, 1, 0, max_tokens))

\* m.id of _get_cache_key: an attribute the object must carry
HasId(m) == "id" \in DOMAIN m

\* "m.content[:100]"
KeyContentPrefix == 100

KeyPart(m) ==
  <<(IF HasId(m) /\ m["id"] # "" THEN m["id"] ELSE m.role), ":">>
  \o PySliceTo(m.content, KeyContentPrefix)

\* the md5 digest is taken as collision free: the key is the hashed string
_get_cache_key(messages) ==
  IF \E i \in 1..Len(messages) : ~HasId(messages[i])
  THEN [raised |-> TRUE, key |-> <<>>]
  ELSE [raised |-> FALSE,
        key |-> Flatten([i \in 1..Len(messages) |-> KeyPart(messages[i])])]

CacheHas(cache, key) == \E e \in cache : e.key = key

CacheGet(cache, key) == (CHOOSE e \in cache : e.key = key).summary

CachePut(cache, key, summary) ==
  {e \in cache : e.key # key} \cup {[key |-> key, summary |-> summary]}

\* response.content.strip(): the generator's reply is modelled stripped
SummarizationResult(raised, success, summary, cache, calls) ==
  [raised |-> raised, success |-> success, summary |-> summary,
   cache |-> cache, calls |-> calls]

\* provider: [present, fails, reply]; cache: set of [key, summary];
\* calls: number of generate calls made so far
_summarize_messages(messages, provider, cache, calls) ==
  IF messages = <<>>
  THEN SummarizationResult(FALSE, TRUE, Some(<<>>), cache, calls)
  ELSE LET ck == _get_cache_key(messages) IN
    IF ck.raised
    THEN SummarizationResult(TRUE, FALSE, NoneText, cache, calls)
    ELSE IF CacheHas(cache, ck.key)
    THEN SummarizationResult(FALSE, TRUE, Some(CacheGet(cache, ck.key)), cache, calls)
    ELSE IF ~provider.present
    THEN SummarizationResult(FALSE, FALSE, NoneText, cache, calls)
    ELSE IF provider.fails
    THEN SummarizationResult(FALSE, FALSE, NoneText, cache, calls + 1)
    ELSE SummarizationResult(FALSE, TRUE, Some(provider.reply),
                             CachePut(cache, ck.key, provider.reply), calls + 1)

SummaryPrefix == <<"Previous", "conversation", "summary", ":">>

ConversationContext(raised, messages, total_tokens, max_tokens, was_summarized, summary, cache, calls) ==
  [raised |-> raised, messages |-> messages, total_tokens |-> total_tokens,
   max_tokens |-> max_tokens, was_summarized |-> was_summarized,
   summary |-> summary, cache |-> cache, calls |-> calls]

OlderMessages(messages, recent_messages) ==
  SelectSeq(messages, LAMBDA m : ~InSeq(m, recent_messages))

\* what the summary is charged when the recent turns are trimmed to fit it:
\* "count_tokens(summary_result.summary, model) + 3"
SummaryTokens(summary) == count_tokens(summary.text) + 3

\* mutant: the summary turn is put after the recent turns
AppendSummary(summary_message, recent_messages) ==
  recent_messages \o <<summary_message>>

\* "final_messages = [summary_message] + recent_messages"
PrependSummary(summary_message, recent_messages) ==
  <<summary_message>> \o recent_messages

_build_with_summarization(messages, system_prompt, max_tokens, config, provider, cache, calls) ==
  LET system_tokens == system_prompt_tokens(system_prompt)
      summary_reserve == config.min_preserved_tokens
      available_tokens == max_tokens - system_tokens - summary_reserve
      recent0 == KeepNewest(messages, available_tokens)
      recent_tokens0 == SumMessageTokens(recent0)
      older_messages == OlderMessages(messages, recent0)
      attempt == older_messages # <<>> /\ provider.present
      sr == _summarize_messages(older_messages, provider, cache, calls)
      summarized == attempt /\ ~sr.raised /\ sr.success /\ Truthy(sr.summary)
      summary_tokens == SummaryTokens(sr.summary)
      recent_messages ==
        IF summarized /\ system_tokens + summary_tokens + recent_tokens0 > max_tokens
        THEN _trim_to_tokens(recent0, max_tokens - system_tokens - summary_tokens)
        ELSE recent0
      summary_message ==
        Message("system", SummaryPrefix \o sr.summary.text,
                count_tokens(sr.summary.text) + 3)
      final_messages ==
        IF summarized THEN PrependSummary(summary_message, recent_messages)
        ELSE recent_messages
  IN IF attempt /\ sr.raised
     THEN ConversationContext(TRUE, <<>>, 0, max_tokens, FALSE, NoneText,
                              cache, calls)
     ELSE ConversationContext(FALSE, final_messages,
            count_context_tokens(final_messages, system_prompt), max_tokens,
            summarized, (IF summarized THEN sr.summary ELSE NoneText),
            (IF attempt THEN sr.cache ELSE cache),
            (IF attempt THEN sr.calls ELSE calls))

\* CHATML_ROLES[role].format(content=content)
ChatMLSegment(role, content) ==
  <<"<|im_start|>", role, "\n">> \o content \o <<"<|im_end|>", "\n">>

\* "<|im_start|>assistant\n"
OpenAssistantSegment == <<"<|im_start|>", "assistant", "\n">>

CHATML_ROLES == {"system", "user", "assistant"}

format_for_llm(context, system_prompt) ==
  LET system_part ==
        IF Truthy(system_prompt) THEN ChatMLSegment("system", system_prompt.text)
        ELSE <<>>
      summary_part ==
        IF Truthy(context.summary)
        THEN ChatMLSegment("system", SummaryPrefix \o context.summary.text)
        ELSE <<>>
      message_part(m) ==
        ChatMLSegment((IF m.role \in CHATML_ROLES THEN m.role ELSE "assistant"),
                      m.content)
  IN system_part \o summary_part
       \o Flatten([i \in 1..Len(context.messages) |-> message_part(context.messages[i])])
       \o OpenAssistantSegment

\* mutant: a context exactly at the limit is not within it
WithinLimitStrict(total_tokens, max_tokens) == total_tokens < max_tokens

WithinLimit(total_tokens, max_tokens) == total_tokens <= max_tokens

build_context(messages, system_prompt, config, provider, cache, calls) ==
  LET max_tokens == config.max_context_tokens - config.response_reserve_tokens
      total_tokens == count_context_tokens(messages, system_prompt)
      windowed_messages ==
        _apply_sliding_window(messages, max_tokens, system_prompt, config)
      windowed_tokens == count_context_tokens(windowed_messages, system_prompt)
  IN IF WithinLimit(total_tokens, max_tokens)
     THEN ConversationContext(FALSE, messages, total_tokens, max_tokens, FALSE,
                              NoneText, cache, calls)
     ELSE IF windowed_tokens > max_tokens /\ config.enable_summarization
     THEN _build_with_summarization(messages, system_prompt, max_tokens, config,
                                    provider, cache, calls)
     ELSE ConversationContext(FALSE, windowed_messages, windowed_tokens,
                              max_tokens, FALSE, NoneText, cache, calls)

\* ------------------------------------------------------------------------
\* State
\* ------------------------------------------------------------------------
VARIABLES
  cb_pc,             \* "ready": inputs chosen; "built": build_context returned or raised
  cb_messages,       \* the turns handed to build_context, oldest first
  cb_system_prompt,  \* the Optional[str] system prompt
  cb_config,         \* the builder's ContextBuilderConfig
  cb_provider,       \* the builder's _llm_provider and how its generate behaves
  cb_cache,          \* the builder's _summarization_cache
  cb_calls,          \* number of generate calls the builder has made
  cb_result,         \* what build_context returned
  sum_results,       \* what the direct calls of _summarize_messages returned, in order
  cb_prompt,         \* what format_for_llm returned, with the system_prompt it was given
  streaming_sessions, \* _streaming_sessions: session_id -> the task whose StreamingSession is stored (0: no entry)
  sess,              \* the StreamingSession object each _stream_llm_response task created
  task_pc,           \* where each _stream_llm_response task is suspended
  task_conv,         \* the session_id argument of each task
  task_content,      \* the content argument of each task
  last_context,      \* the turns of the latest build_context call of a task
  last_prompt,       \* the prompt of the latest llm.stream call of a task
  n_tasks,           \* number of asyncio.create_task calls so far
  handler_session_id, \* the local session_id of websocket_handler
  events,            \* everything sent on the websocket, in order
  db_sessions,       \* store: the sessions that exist, with their system prompt
  db_messages,       \* store: the messages of each session, by created_at
  upstream,          \* per task, the tokens its loop has taken from llm.stream
  connected,         \* whether the provider is connected
  n_requests         \* number of client messages websocket_handler has handled

cbvars == <<cb_pc, cb_messages, cb_system_prompt, cb_config, cb_provider,
            cb_cache, cb_calls, cb_result, sum_results, cb_prompt>>

wsvars == <<streaming_sessions, sess, task_pc, task_conv, task_content,
            last_context, last_prompt, n_tasks,
            handler_session_id, events, db_sessions, db_messages, upstream,
            connected, n_requests>>

vars == <<cb_pc, cb_messages, cb_system_prompt, cb_config, cb_provider,
          cb_cache, cb_calls, cb_result, sum_results, cb_prompt,
          streaming_sessions, sess, task_pc, task_conv, task_content,
          last_context, last_prompt, n_tasks,
          handler_session_id, events, db_sessions, db_messages, upstream,
          connected, n_requests>>

\* ------------------------------------------------------------------------
\* Inputs of the context builder
\* ------------------------------------------------------------------------
MessagePool ==
  { Message("user", <<>>, 0),
    Message("user", <<"a">>, 0),
    Message("assistant", <<"b">>, 0),
    Message("assistant", <<"a", "b", "c", "d">>, 9) }

\* turns handed to the summarization path: with and without an id attribute
TurnPool ==
  { Message("user", <<"a">>, 0),
    IdMessage("", "user", <<>>, 0),
    IdMessage("", "user", <<"a">>, 0),
    IdMessage("m1", "assistant", <<"b">>, 0) }

\* a content one element longer than the prefix the cache key reads
LongContent(last) ==
  [i \in 1..(KeyContentPrefix + 1) |-> IF i <= KeyContentPrefix THEN "w" ELSE last]

\* turns handed to _summarize_messages: without an id attribute, with an
\* empty one, with one that is set
SumTurnPool ==
  { Message("user", <<>>, 0),
    IdMessage("", "user", LongContent("x"), 0),
    IdMessage("", "user", LongContent("y"), 0),
    IdMessage("m1", "assistant", <<"b">>, 0) }

RECURSIVE SeqsUpTo(_, _)
SeqsUpTo(S, n) ==
  IF n = 0 THEN {<<>>}
  ELSE LET shorter == SeqsUpTo(S, n - 1)
       IN shorter \cup {Append(q, x) : q \in {r \in shorter : Len(r) = n - 1}, x \in S}

SystemPrompts ==
  {NoneText, Some(<<>>), Some(<<"p">>), Some(<<"p", "q", "r", "s", "t", "u">>)}

Configs ==
  [max_context_tokens : {4, 12, 16}, min_preserved_tokens : {0, 2},
   max_messages_before_summary : {0, 1, 20}, enable_summarization : BOOLEAN,
   response_reserve_tokens : {0, 4}]

NoProvider == [present |-> FALSE, fails |-> FALSE, reply |-> <<>>]

Providers ==
  {NoProvider,
   [present |-> TRUE, fails |-> TRUE, reply |-> <<>>],
   [present |-> TRUE, fails |-> FALSE, reply |-> <<"s">>]}

NoPrompt == [system_prompt |-> NoneText, text |-> <<>>]

NoResult ==
  ConversationContext(FALSE, <<>>, 0, 0, FALSE, NoneText, {}, 0)

\* ------------------------------------------------------------------------
\* Streaming sessions: data
\* ------------------------------------------------------------------------
Convs == {"s1", "s2"}

\* a missing or empty session_id (falsy in Python)
NoConv == ""

Tasks == 1..MaxRequests

UserContents == {<<>>, <<"hi">>}

TokenTexts == {<<"x">>, <<"y">>}

MessageLimit == 100

StatusEvery == 10

StreamingSession(session_id, message_id) ==
  [session_id |-> session_id, message_id |-> message_id,
   accumulated_content |-> <<>>, token_count |-> 0, is_streaming |-> TRUE,
   cancel_requested |-> FALSE]

NoSession ==
  [session_id |-> NoConv, message_id |-> 0, accumulated_content |-> <<>>,
   token_count |-> 0, is_streaming |-> FALSE, cancel_requested |-> FALSE]

BlankEvent ==
  [type |-> "", error |-> "", session_id |-> NoConv, message_id |-> 0,
   token |-> <<>>, token_index |-> 0, accumulated_content |-> <<>>,
   token_count |-> 0, cancelled |-> FALSE, is_streaming |-> FALSE]

ErrorEvent(error) == [BlankEvent EXCEPT !.type = "error", !.error = error]

TokenEvent(session, text) ==
  [BlankEvent EXCEPT !.type = "token", !.token = text,
                     !.message_id = session.message_id,
                     !.token_index = session.token_count]

CompleteEvent(session, cancelled) ==
  [BlankEvent EXCEPT !.type = "complete", !.message_id = session.message_id,
                     !.accumulated_content = session.accumulated_content,
                     !.token_count = session.token_count,
                     !.cancelled = cancelled]

StatusEvent(session_id, is_streaming, token_count, content) ==
  [BlankEvent EXCEPT !.type = "status", !.session_id = session_id,
                     !.is_streaming = is_streaming, !.token_count = token_count,
                     !.accumulated_content = content]

RECURSIVE SumLens(_, _)
SumLens(f, n) == IF n = 0 THEN 0 ELSE Len(f[n]) + SumLens(f, n - 1)

\* number of tokens taken from the upstream streams so far
TokensTaken(up) == SumLens(up, MaxRequests)

\* "session_id in _streaming_sessions"
InTable(table, session_id) == session_id \in Convs /\ table[session_id] # 0

\* the session object stored under session_id
Entry(session_id) == sess[streaming_sessions[session_id]]

get_session(session_id) == db_sessions[session_id]

get_messages(session_id) == PySliceTo(db_messages[session_id], MessageLimit)

\* the ContextMessage the handler builds from a stored message: role,
\* content and token_count are carried over, the other fields are not
ContextMessage(m) == Message(m.role, m.content, m.token_count)

create_message(db, session_id, message) ==
  [db EXCEPT ![session_id] = Append(@, message)]

\* mutant: the task ends without the cleanup
CleanupSkipped(table, session_id) == table

\* the "finally" of _stream_llm_response
Cleanup(table, session_id) ==
  IF InTable(table, session_id) THEN [table EXCEPT ![session_id] = 0] ELSE table

\* mutant: the loop does not look at the flag
NeverBreak(session) == FALSE

\* "if session.cancel_requested: break"
ShouldBreak(session) == session.cancel_requested

\* mutant: the status of a live session is reported as if it had just started
LiveStatusStale(session_id, session) ==
  StatusEvent(session_id, session.is_streaming, 0, <<>>)

\* the status event of the get_status branch when the session is live
LiveStatus(session_id, session) ==
  StatusEvent(session_id, session.is_streaming, session.token_count,
              PySliceTo(session.accumulated_content, 100))

\* the status event of the get_status branch when no session is live
IdleStatus(session_id) == StatusEvent(session_id, FALSE, 0, <<>>)

\* mutant: the cancel request leaves the flag alone
RequestCancelIgnored(session) == session

\* "session.cancel_requested = True" of the cancel_stream branch
RequestCancel(session) == [session EXCEPT !.cancel_requested = TRUE]

\* mutant: the code after the loop does not look at the flag
NeverCancelledAfterLoop(session) == FALSE

\* "if session.cancel_requested:" after the loop
CancelledAfterLoop(session) == session.cancel_requested

\* mutant: a provider that is not connected streams all the same
StreamOpensUnconnected(conn) == TRUE

\* LocalModelProvider.stream raises at once unless the provider is connected
StreamOpens(conn) == conn

\* positions of a task suspended in its last send, before the finally clause
Finishing ==
  {"sending_not_found", "sending_cancelled", "sending_complete", "sending_error"}

\* mutant: a status event after every token
StatusDueAlways(session) == TRUE

\* "if session.token_count % 10 == 0"
StatusDue(session) == session.token_count % StatusEvery = 0

\* mutant: the update keeps only the newest token's text
UpdateSessionOverwrite(session, text) ==
  [session EXCEPT !.accumulated_content = text, !.token_count = @ + 1]

\* mutant: the update forgets to count the token
UpdateSessionNoCount(session, text) ==
  [session EXCEPT !.accumulated_content = @ \o text]

\* "Update session state" of the streaming loop
UpdateSession(session, text) ==
  [session EXCEPT !.accumulated_content = @ \o text, !.token_count = @ + 1]

\* ------------------------------------------------------------------------
\* Initial states
\* ------------------------------------------------------------------------
CBIdle ==
  /\ cb_pc = "off"
  /\ cb_messages = <<>>
  /\ cb_system_prompt = NoneText
  /\ cb_config = DefaultConfig
  /\ cb_provider = NoProvider
  /\ cb_cache = {}
  /\ cb_calls = 0
  /\ cb_result = NoResult
  /\ sum_results = <<>>
  /\ cb_prompt = NoPrompt

\* no request handled yet; history is what the store holds for the
\* conversation that exists
WSIdleWith(conn, history) ==
  /\ streaming_sessions = [c \in Convs |-> 0]
  /\ sess = [t \in Tasks |-> NoSession]
  /\ task_pc = [t \in Tasks |-> "none"]
  /\ task_conv = [t \in Tasks |-> NoConv]
  /\ task_content = [t \in Tasks |-> <<>>]
  /\ last_context = <<>>
  /\ last_prompt = NoneText
  /\ n_tasks = 0
  /\ handler_session_id = NoConv
  /\ events = <<>>
  /\ db_sessions = [c \in Convs |->
                      IF c = "s1" THEN [found |-> TRUE, system_prompt |-> Some(<<"p">>)]
                      ELSE [found |-> FALSE, system_prompt |-> NoneText]]
  /\ db_messages = [c \in Convs |-> IF c = "s1" THEN history ELSE <<>>]
  /\ upstream = [t \in Tasks |-> <<>>]
  /\ connected \in conn
  /\ n_requests = 0

WSIdle(conn) == WSIdleWith(conn, <<>>)

Init == CBIdle /\ WSIdle(BOOLEAN)

InitCB ==
  /\ cb_pc = "ready"
  /\ cb_messages \in SeqsUpTo(MessagePool, MaxMsgs)
  /\ cb_system_prompt \in SystemPrompts
  /\ cb_config \in Configs
  /\ cb_provider \in Providers
  /\ cb_cache = {}
  /\ cb_calls = 0
  /\ cb_result = NoResult
  /\ sum_results = <<>>
  /\ cb_prompt = NoPrompt
  /\ WSIdle({TRUE})

\* ------------------------------------------------------------------------
\* Operations of the context builder
\* ------------------------------------------------------------------------
BuildContext ==
  /\ cb_pc = "ready"
  /\ LET r == build_context(cb_messages, cb_system_prompt, cb_config,
                            cb_provider, cb_cache, cb_calls)
     IN /\ cb_result' = r
        /\ cb_cache' = r.cache
        /\ cb_calls' = r.calls
  /\ cb_pc' = "built"
  /\ UNCHANGED <<cb_messages, cb_system_prompt, cb_config, cb_provider,
                 sum_results, cb_prompt>>
  /\ UNCHANGED wsvars

NextCB == BuildContext

SpecCB == InitCB /\ [][NextCB]_vars

\* Summarization called on one builder several times over, with the same or
\* with another turn set (no clear_cache in between)
InitSum ==
  /\ cb_pc = "ready"
  /\ cb_messages = <<>>
  /\ cb_system_prompt \in SystemPrompts
  /\ cb_config = DefaultConfig
  /\ cb_provider \in Providers
  /\ cb_cache = {}
  /\ cb_calls = 0
  /\ cb_result = NoResult
  /\ sum_results = <<>>
  /\ cb_prompt = NoPrompt
  /\ WSIdle({TRUE})

SummarizeMessages(messages) ==
  /\ cb_pc = "ready"
  /\ Len(sum_results) < MaxSummarize
  /\ LET r == _summarize_messages(messages, cb_provider, cb_cache, cb_calls)
     IN /\ sum_results' = Append(sum_results, [messages |-> messages, result |-> r])
        /\ cb_cache' = r.cache
        /\ cb_calls' = r.calls
  /\ cb_messages' = messages
  /\ UNCHANGED <<cb_pc, cb_system_prompt, cb_config, cb_provider, cb_result,
                 cb_prompt>>
  /\ UNCHANGED wsvars

NextSum == \E messages \in SeqsUpTo(SumTurnPool, MaxSumTurns) : SummarizeMessages(messages)

SpecSum == InitSum /\ [][NextSum]_vars

\* _build_with_summarization applied to enumerated inputs
PathConfigs ==
  {c \in Configs : c.enable_summarization /\ c.max_messages_before_summary = 20}

InitPath ==
  /\ cb_pc = "ready"
  /\ cb_messages \in SeqsUpTo(TurnPool, MaxMsgs)
  /\ cb_system_prompt \in SystemPrompts
  /\ cb_config \in PathConfigs
  /\ cb_provider \in Providers
  /\ cb_cache = {}
  /\ cb_calls = 0
  /\ cb_result = NoResult
  /\ sum_results = <<>>
  /\ cb_prompt = NoPrompt
  /\ WSIdle({TRUE})

BuildWithSummarization ==
  /\ cb_pc = "ready"
  /\ LET max_tokens == cb_config.max_context_tokens - cb_config.response_reserve_tokens
         r == _build_with_summarization(cb_messages, cb_system_prompt, max_tokens, cb_config, cb_provider, cb_cache, cb_calls)
     IN /\ cb_result' = r
        /\ cb_cache' = r.cache
        /\ cb_calls' = r.calls
  /\ cb_pc' = "summarized"
  /\ UNCHANGED <<cb_messages, cb_system_prompt, cb_config, cb_provider,
                 sum_results, cb_prompt>>
  /\ UNCHANGED wsvars

\* format_for_llm applied to the context that was built, with or without the
\* system prompt as its second argument
FormatForLLM(system_prompt) ==
  /\ cb_pc = "summarized"
  /\ ~cb_result.raised
  /\ cb_prompt' = [system_prompt |-> system_prompt,
                   text |-> format_for_llm(cb_result, system_prompt)]
  /\ cb_pc' = "formatted"
  /\ UNCHANGED <<cb_messages, cb_system_prompt, cb_config, cb_provider,
                 cb_cache, cb_calls, cb_result, sum_results>>
  /\ UNCHANGED wsvars

NextPath ==
  \/ BuildWithSummarization
  \/ \E system_prompt \in {NoneText, cb_system_prompt} : FormatForLLM(system_prompt)

SpecPath == InitPath /\ [][NextPath]_vars

\* ------------------------------------------------------------------------
\* websocket_handler: one client message per step
\* ------------------------------------------------------------------------
SendMessage(session_id, content) ==
  /\ n_requests < MaxRequests
  /\ n_requests' = n_requests + 1
  /\ handler_session_id' = session_id
  /\ IF session_id = NoConv
     THEN /\ events' = Append(events, ErrorEvent("missing_session_id"))
          /\ UNCHANGED <<task_pc, task_conv, task_content, n_tasks>>
     ELSE IF content = <<>>
     THEN /\ events' = Append(events, ErrorEvent("missing_content"))
          /\ UNCHANGED <<task_pc, task_conv, task_content, n_tasks>>
     ELSE \* asyncio.create_task(_stream_llm_response(websocket, session_id, content))
          /\ n_tasks' = n_tasks + 1
          /\ task_pc' = [task_pc EXCEPT ![n_tasks + 1] = "scheduled"]
          /\ task_conv' = [task_conv EXCEPT ![n_tasks + 1] = session_id]
          /\ task_content' = [task_content EXCEPT ![n_tasks + 1] = content]
          /\ UNCHANGED events
  /\ UNCHANGED <<streaming_sessions, sess, db_sessions, db_messages, upstream,
                 connected>>
  /\ UNCHANGED <<last_context, last_prompt>>
  /\ UNCHANGED cbvars

CancelStream ==
  /\ n_requests < MaxRequests
  /\ n_requests' = n_requests + 1
  /\ IF handler_session_id # NoConv /\ InTable(streaming_sessions, handler_session_id)
     THEN LET t == streaming_sessions[handler_session_id]
              session == RequestCancel(sess[t])
          IN /\ sess' = [sess EXCEPT ![t] = session]
             /\ events' = Append(events, CompleteEvent(session, TRUE))
     ELSE /\ events' = Append(events, ErrorEvent("no_active_stream"))
          /\ UNCHANGED sess
  /\ UNCHANGED <<streaming_sessions, task_pc, task_conv, task_content, n_tasks,
                 handler_session_id, db_sessions, db_messages, upstream, connected>>
  /\ UNCHANGED <<last_context, last_prompt>>
  /\ UNCHANGED cbvars

GetStatus ==
  /\ n_requests < MaxRequests
  /\ n_requests' = n_requests + 1
  /\ IF handler_session_id # NoConv /\ InTable(streaming_sessions, handler_session_id)
     THEN events' = Append(events,
            LiveStatus(handler_session_id, Entry(handler_session_id)))
     ELSE events' = Append(events, IdleStatus(handler_session_id))
  /\ UNCHANGED <<streaming_sessions, sess, task_pc, task_conv, task_content,
                 n_tasks, handler_session_id, db_sessions, db_messages, upstream,
                 connected>>
  /\ UNCHANGED <<last_context, last_prompt>>
  /\ UNCHANGED cbvars

\* ------------------------------------------------------------------------
\* _stream_llm_response: one step per stretch of code between two awaits
\* ------------------------------------------------------------------------
\* from the task's first run to its first await
StartStreaming(t) ==
  /\ task_pc[t] = "scheduled"
  /\ LET session_id == task_conv[t]
         session == StreamingSession(session_id, t)
         db_session == get_session(session_id)
         existing_messages == get_messages(session_id)
         user_message == Message("user", task_content[t],
                                 count_tokens(task_content[t]))
         context_messages ==
           Append([i \in 1..Len(existing_messages) |->
                     ContextMessage(existing_messages[i])],
                  ContextMessage(user_message))
         context == build_context(context_messages, db_session.system_prompt,
                                  DefaultConfig, NoProvider, {}, 0)
         prompt == format_for_llm(context, NoneText)
     IN /\ sess' = [sess EXCEPT ![t] = session]
        /\ streaming_sessions' = [streaming_sessions EXCEPT ![session_id] = t]
        /\ IF ~db_session.found
           THEN /\ events' = Append(events, ErrorEvent("session_not_found"))
                /\ task_pc' = [task_pc EXCEPT ![t] = "sending_not_found"]
                /\ UNCHANGED <<db_messages, last_context, last_prompt>>
           ELSE /\ db_messages' = create_message(db_messages, session_id, user_message)
                /\ last_context' = context_messages
                /\ IF context.raised
                   THEN /\ events' = Append(events, ErrorEvent("streaming_error"))
                        /\ task_pc' = [task_pc EXCEPT ![t] = "sending_error"]
                        /\ UNCHANGED last_prompt
                   ELSE /\ task_pc' = [task_pc EXCEPT ![t] = "streaming"]
                        /\ last_prompt' = Some(prompt)
                        /\ UNCHANGED events
  /\ UNCHANGED <<task_conv, task_content, n_tasks, handler_session_id,
                 db_sessions, upstream, connected, n_requests>>
  /\ UNCHANGED cbvars

\* the stream yields a token: the cancellation check, then the token event
\* (limit bounds the number of tokens the upstream yields in the model)
TakeToken(t, text, limit) ==
  /\ task_pc[t] = "streaming"
  /\ StreamOpens(connected)
  /\ TokensTaken(upstream) < limit
  /\ upstream' = [upstream EXCEPT ![t] =
                    Append(@, [text |-> text,
                               after_cancel |-> sess[t].cancel_requested])]
  /\ IF ShouldBreak(sess[t])
     THEN /\ events' = Append(events, CompleteEvent(sess[t], TRUE))
          /\ task_pc' = [task_pc EXCEPT ![t] = "sending_cancelled"]
     ELSE /\ events' = Append(events, TokenEvent(sess[t], text))
          /\ task_pc' = [task_pc EXCEPT ![t] = "sending_token"]
  /\ UNCHANGED <<streaming_sessions, sess, task_conv, task_content, n_tasks,
                 handler_session_id, db_sessions, db_messages, connected,
                 n_requests>>
  /\ UNCHANGED <<last_context, last_prompt>>
  /\ UNCHANGED cbvars

StreamToken(t, text) == TakeToken(t, text, MaxStreamTokens)

\* the token event is sent: the session is updated, with a status event at
\* every StatusEvery-th token, and the loop asks for the next token
TokenSent(t) ==
  /\ task_pc[t] = "sending_token"
  /\ LET text == upstream[t][Len(upstream[t])].text
         session == UpdateSession(sess[t], text)
     IN /\ sess' = [sess EXCEPT ![t] = session]
        /\ IF StatusDue(session)
           THEN events' = Append(events,
                  StatusEvent(task_conv[t], TRUE, session.token_count,
                              PySliceTo(session.accumulated_content, 200)))
           ELSE UNCHANGED events
  /\ task_pc' = [task_pc EXCEPT ![t] = "streaming"]
  /\ UNCHANGED <<streaming_sessions, task_conv, task_content, n_tasks,
                 handler_session_id, db_sessions, db_messages, upstream,
                 connected, n_requests>>
  /\ UNCHANGED <<last_context, last_prompt>>
  /\ UNCHANGED cbvars

\* the stream ends: the code after the loop
StreamEnd(t) ==
  /\ task_pc[t] = "streaming"
  /\ StreamOpens(connected)
  /\ IF CancelledAfterLoop(sess[t])
     THEN /\ events' = Append(events, CompleteEvent(sess[t], TRUE))
          /\ task_pc' = [task_pc EXCEPT ![t] = "sending_cancelled"]
          /\ UNCHANGED db_messages
     ELSE /\ db_messages' = create_message(db_messages, task_conv[t],
               Message("assistant", sess[t].accumulated_content,
                       count_tokens(sess[t].accumulated_content)))
          /\ events' = Append(events, CompleteEvent(sess[t], FALSE))
          /\ task_pc' = [task_pc EXCEPT ![t] = "sending_complete"]
  /\ UNCHANGED <<streaming_sessions, sess, task_conv, task_content, n_tasks,
                 handler_session_id, db_sessions, upstream, connected, n_requests>>
  /\ UNCHANGED <<last_context, last_prompt>>
  /\ UNCHANGED cbvars

\* the stream raises (a provider that is not connected raises on the first
\* request for a token): the except clause
StreamError(t) ==
  /\ task_pc[t] = "streaming"
  /\ ~connected => upstream[t] = <<>>
  /\ events' = Append(events, ErrorEvent("streaming_error"))
  /\ task_pc' = [task_pc EXCEPT ![t] = "sending_error"]
  /\ UNCHANGED <<streaming_sessions, sess, task_conv, task_content, n_tasks,
                 handler_session_id, db_sessions, db_messages, upstream,
                 connected, n_requests>>
  /\ UNCHANGED <<last_context, last_prompt>>
  /\ UNCHANGED cbvars

\* the last event is sent: the finally clause
Finish(t) ==
  /\ task_pc[t] \in Finishing
  /\ streaming_sessions' = Cleanup(streaming_sessions, task_conv[t])
  /\ task_pc' = [task_pc EXCEPT ![t] = "done"]
  /\ UNCHANGED <<sess, task_conv, task_content, n_tasks, handler_session_id,
                 events, db_sessions, db_messages, upstream, connected,
                 n_requests>>
  /\ UNCHANGED <<last_context, last_prompt>>
  /\ UNCHANGED cbvars

Next ==
  \/ \E session_id \in Convs \cup {NoConv}, content \in UserContents :
       SendMessage(session_id, content)
  \/ CancelStream
  \/ GetStatus
  \/ \E t \in Tasks : StartStreaming(t)
  \/ \E t \in Tasks, text \in TokenTexts : StreamToken(t, text)
  \/ \E t \in Tasks : TokenSent(t)
  \/ \E t \in Tasks : StreamEnd(t)
  \/ \E t \in Tasks : StreamError(t)
  \/ \E t \in Tasks : Finish(t)

Spec == Init /\ [][Next]_vars

\* One long generation: the client starts one generation for the stored
\* conversation and may send cancel_stream and get_status while it runs; the
\* upstream yields up to MaxLoopTokens tokens
InitLoop == CBIdle /\ WSIdle({TRUE})

StartOne == n_tasks = 0 /\ SendMessage("s1", <<"hi">>)

NextLoop ==
  \/ StartOne
  \/ CancelStream
  \/ GetStatus
  \/ \E t \in Tasks : StartStreaming(t)
  \/ \E t \in Tasks : TakeToken(t, <<"x">>, MaxLoopTokens)
  \/ \E t \in Tasks : TokenSent(t)
  \/ \E t \in Tasks : StreamEnd(t)
  \/ \E t \in Tasks : StreamError(t)
  \/ \E t \in Tasks : Finish(t)

SpecLoop == InitLoop /\ [][NextLoop]_vars

\* One generation for a conversation that already has a stored history
\* (alternating user and assistant turns, numbered by their token_count)
StoredHistory(n) ==
  [i \in 1..n |-> Message((IF i % 2 = 1 THEN "user" ELSE "assistant"), <<"h">>, i)]

HistoryLengths == {0, 1, MessageLimit, MessageLimit + 1}

InitHistory ==
  /\ CBIdle
  /\ \E n \in HistoryLengths : WSIdleWith(BOOLEAN, StoredHistory(n))

NextHistory ==
  \/ StartOne
  \/ CancelStream
  \/ GetStatus
  \/ \E t \in Tasks : StartStreaming(t)
  \/ \E t \in Tasks, text \in TokenTexts : StreamToken(t, text)
  \/ \E t \in Tasks : TokenSent(t)
  \/ \E t \in Tasks : StreamEnd(t)
  \/ \E t \in Tasks : StreamError(t)
  \/ \E t \in Tasks : Finish(t)

SpecHistory == InitHistory /\ [][NextHistory]_vars

\* ========================================================================
\* Properties of build_context (checked under SpecCB)
\* ========================================================================
Built == cb_pc = "built"

Returned == Built /\ ~cb_result.raised

Budget == cb_config.max_context_tokens - cb_config.response_reserve_tokens

SolvableConfig ==
  cb_config.max_context_tokens >
    cb_config.response_reserve_tokens + cb_config.min_preserved_tokens

SomeTurnUnderBudget ==
  \E i \in 1..Len(cb_messages) : count_message_tokens(cb_messages[i]) < Budget

IsSuffix(s, full) ==
  /\ Len(s) <= Len(full)
  /\ s = SubSeq(full, Len(full) - Len(s) + 1, Len(full))

\* the original turns of the returned context (without the synthetic summary turn)
KeptTurns ==
  IF cb_result.was_summarized THEN Tail(cb_result.messages) ELSE cb_result.messages

\* C1 as stated: with a solvable configuration and at least one turn costing
\* less than the budget, every context build_context returns has
\* total_tokens <= max_context_tokens - response_reserve_tokens.
C1_BudgetComplianceAsStated ==
  (Returned /\ SolvableConfig /\ SomeTurnUnderBudget)
    => cb_result.total_tokens <= Budget

\* C1 amended: the same, for the calls whose system prompt by itself costs no
\* more than the budget: build_context returns, and within the budget.
C1_BudgetCompliance ==
  (Built /\ SolvableConfig /\ SomeTurnUnderBudget
     /\ system_prompt_tokens(cb_system_prompt) <= Budget)
    => (~cb_result.raised /\ cb_result.total_tokens <= Budget)

C1_Witness ==
  /\ Returned /\ SolvableConfig /\ SomeTurnUnderBudget
  /\ Truthy(cb_system_prompt)
  /\ system_prompt_tokens(cb_system_prompt) <= Budget
  /\ cb_config.enable_summarization /\ cb_provider.present
  /\ count_context_tokens(cb_messages, cb_system_prompt) > Budget
  /\ cb_result.messages # <<>>
  /\ Len(cb_result.messages) < Len(cb_messages)
  /\ cb_result.total_tokens <= Budget

\* C9: in every context build_context returns, the original turns kept are a
\* contiguous suffix of the input: no turn is dropped while an older one is kept.
C9_RecencyPreference == Returned => IsSuffix(KeptTurns, cb_messages)

C9_Witness ==
  /\ Returned
  /\ KeptTurns # <<>>
  /\ Len(KeptTurns) < Len(cb_messages)
  /\ Len(KeptTurns) = cb_config.max_messages_before_summary
  /\ IsSuffix(KeptTurns, cb_messages)
  /\ cb_messages[1] # cb_messages[Len(cb_messages)]

\* C10: when the system prompt and all turns together cost no more than the
\* budget, build_context returns all input turns unmodified and in order,
\* was_summarized = false, no summary, and the generator is not called,
\* whatever max_messages_before_summary is.
C10_WithinLimitPassThrough ==
  (Built /\ count_context_tokens(cb_messages, cb_system_prompt) <= Budget)
    => /\ ~cb_result.raised
       /\ cb_result.messages = cb_messages
       /\ cb_result.total_tokens = count_context_tokens(cb_messages, cb_system_prompt)
       /\ ~cb_result.was_summarized
       /\ cb_result.summary = NoneText
       /\ cb_calls = 0

C10_Witness ==
  /\ Built
  /\ count_context_tokens(cb_messages, cb_system_prompt) = Budget
  /\ Len(cb_messages) > cb_config.max_messages_before_summary
  /\ Len(cb_messages) >= 2
  /\ cb_config.enable_summarization /\ cb_provider.present /\ ~cb_provider.fails
  /\ cb_result.messages = cb_messages
  /\ ~cb_result.was_summarized

\* ========================================================================
\* Properties of the streaming sessions (checked under Spec)
\* ========================================================================
\* a task that has registered its session and has not yet run its cleanup
Running(t) == task_pc[t] \in {"streaming", "sending_token"} \cup Finishing

Last(seq) == seq[Len(seq)]

\* the token events sent for message_id among the first n events
TokenEventsOf(message_id, n) ==
  SelectSeq(SubSeq(events, 1, n),
            LAMBDA e : e.type = "token" /\ e.message_id = message_id)

ConcatTokens(token_events) ==
  Flatten([i \in 1..Len(token_events) |-> token_events[i].token])

CancelledComplete(e) == e.type = "complete" /\ e.cancelled

\* the conversation has a live session whose generation is in its token loop
StillStreaming(c) ==
  /\ InTable(streaming_sessions, c)
  /\ task_pc[streaming_sessions[c]] \in {"streaming", "sending_token"}

\* C2: while the generation of a conversation is still streaming, a start for
\* that conversation starts no generation task, and no step replaces the
\* conversation's entry in the live table by the session of another generation.
C2_SingleFlight ==
  [][\A c \in Convs :
       StillStreaming(c) =>
         /\ ~(n_tasks' = n_tasks + 1 /\ task_conv'[n_tasks'] = c)
         /\ InTable(streaming_sessions', c) =>
              streaming_sessions'[c] = streaming_sessions[c]]_vars

\* C3: two generation tasks of the same conversation never run at the same time.
C3_AtMostOneLive ==
  \A t1, t2 \in Tasks :
    (t1 # t2 /\ Running(t1) /\ Running(t2)) => task_conv[t1] # task_conv[t2]

\* C4: every complete event with cancelled = true carries the concatenation of
\* the token events sent before it for its message_id, and their number.
C4_CancelledContent ==
  \A i \in 1..Len(events) :
    CancelledComplete(events[i]) =>
      LET sent == TokenEventsOf(events[i].message_id, i)
      IN /\ events[i].accumulated_content = ConcatTokens(sent)
         /\ events[i].token_count = Len(sent)

\* C5: in the state reached by sending a complete event with cancelled = true,
\* the conversation of that generation has no entry in the live table.
C5_SlotFreeAfterCancel ==
  [][(events' # events /\ CancelledComplete(Last(events')))
       => ~InTable(streaming_sessions', task_conv[Last(events').message_id])]_vars

\* C6: the step that ends a generation task leaves no entry for its
\* conversation in the live table, whichever way the task ends.
C6_CleanupOnEveryExit ==
  [][\A t \in Tasks :
       (task_pc[t] # "done" /\ task_pc'[t] = "done")
         => ~InTable(streaming_sessions', task_conv[t])]_vars

C6_Witness ==
  \E t \in Tasks :
    /\ task_pc[t] = "done"
    /\ sess[t].cancel_requested
    /\ upstream[t] # <<>>
    /\ ~InTable(streaming_sessions, task_conv[t])

\* the tokens a task took from upstream after cancel was requested on its session
TakenAfterCancel(t) == {i \in 1..Len(upstream[t]) : upstream[t][i].after_cancel}

\* C7: once cancel is requested on its session, a task takes at most one more
\* token from upstream, and no token event is sent for such a token.
C7_BoundedCancellation ==
  \A t \in Tasks :
    /\ Cardinality(TakenAfterCancel(t)) <= 1
    /\ \A j \in 1..Len(events) :
         (events[j].type = "token" /\ events[j].message_id = t)
           => (events[j].token_index + 1) \notin TakenAfterCancel(t)

C7_Witness ==
  \E t \in Tasks :
    /\ task_pc[t] = "done"
    /\ Len(upstream[t]) = 2
    /\ TakenAfterCancel(t) = {2}
    /\ Len(TokenEventsOf(t, Len(events))) = 1

\* C8: the token events of a generation carry the upstream tokens in the order
\* taken, with token_index 0, 1, 2, ...
C8_TokenOrder ==
  \A t \in Tasks :
    LET sent == TokenEventsOf(t, Len(events))
    IN /\ Len(sent) <= Len(upstream[t])
       /\ \A i \in 1..Len(sent) :
            /\ sent[i].token = upstream[t][i].text
            /\ sent[i].token_index = i - 1

C8_Witness ==
  \E i, j, k \in 1..Len(events) :
    /\ i < j /\ j < k
    /\ events[i].type = "token" /\ events[k].type = "token"
    /\ events[i].message_id = events[k].message_id
    /\ events[i].token # events[k].token
    /\ events[i].token_index = 0 /\ events[k].token_index = 1
    /\ events[j].type = "status"

\* ========================================================================
\* Summarization and configuration properties of build_context (SpecCB)
\* ========================================================================
OverBudget == count_context_tokens(cb_messages, cb_system_prompt) > Budget

WindowedMessages ==
  _apply_sliding_window(cb_messages, Budget, cb_system_prompt, cb_config)

\* the sliding window keeps some recent turns and leaves out at least one
\* older turn
WindowDropsTurn ==
  /\ OverBudget
  /\ WindowedMessages # <<>>
  /\ Len(WindowedMessages) < Len(cb_messages)

GeneratorSucceeds == cb_provider.present /\ ~cb_provider.fails

IsSummaryTurn(m) ==
  /\ m.role = "system"
  /\ Len(m.content) >= Len(SummaryPrefix)
  /\ SubSeq(m.content, 1, Len(SummaryPrefix)) = SummaryPrefix

\* C11: when summarization is enabled (with a solvable configuration), a
\* generator is set and succeeds, and the sliding window drops at least one
\* older turn, build_context returns
\* was_summarized = true, the turns not kept are replaced by one summary turn
\* at the head of the context, and total_tokens <= max_tokens.
C11_SummarizationTrigger ==
  (Built /\ SolvableConfig /\ cb_config.enable_summarization
     /\ GeneratorSucceeds /\ WindowDropsTurn)
    => /\ ~cb_result.raised
       /\ cb_result.was_summarized
       /\ cb_result.messages # <<>>
       /\ IsSummaryTurn(cb_result.messages[1])
       /\ IsSuffix(Tail(cb_result.messages), cb_messages)
       /\ cb_result.total_tokens <= Budget

\* a call with exactly one turn, no system prompt, the turn costing more than
\* the budget
SingleOversizedTurn ==
  /\ Len(cb_messages) = 1
  /\ ~Truthy(cb_system_prompt)
  /\ count_message_tokens(cb_messages[1]) > Budget

\* C12: when a single turn costs more than max_tokens (no system prompt, a
\* solvable configuration), build_context returns a context containing that
\* turn as-is, was_summarized = false and total_tokens equal to the turn's
\* cost.
C12_OversizedTurnAsIs ==
  (Built /\ SolvableConfig /\ SingleOversizedTurn)
    => /\ ~cb_result.raised
       /\ cb_result.messages = cb_messages
       /\ ~cb_result.was_summarized
       /\ cb_result.total_tokens = count_message_tokens(cb_messages[1])

\* C13: build_context never raises because of summarization: it always
\* returns, and when the generator is absent or its generate call fails the
\* context returned has was_summarized = false and no summary.
C13_SummarizationNeverRaises ==
  Built => /\ ~cb_result.raised
           /\ (~GeneratorSucceeds =>
                 (~cb_result.was_summarized /\ cb_result.summary = NoneText))

\* C15: a builder is never constructed with an unsatisfiable budget
\* (response_reserve_tokens >= max_context_tokens, or max_context_tokens <=
\* response_reserve_tokens + min_preserved_tokens), so build_context never
\* runs with a zero or negative max_tokens.
C15_ConfigFailFast ==
  Built => /\ cb_config.response_reserve_tokens < cb_config.max_context_tokens
           /\ SolvableConfig
           /\ cb_result.max_tokens > 0

\* C16: for every configuration, turn sequence (the empty one included) and
\* system prompt, the context build_context returns has
\* total_tokens <= max_context_tokens.
C16_ContextWindowCompliance ==
  Returned => cb_result.total_tokens <= cb_config.max_context_tokens

\* ========================================================================
\* Summarization cache (checked under SpecSum)
\* ========================================================================
\* C14: summarizing the identical (non-empty) turn set twice on the same
\* builder with a generator that succeeds calls the generator exactly once;
\* the second summarization returns the same summary string as the first.
C14_IdempotentSummarization ==
  (Len(sum_results) >= 2 /\ cb_messages # <<>> /\ GeneratorSucceeds
     /\ \A i \in 1..Len(sum_results) : sum_results[i].messages = cb_messages)
    => /\ cb_calls = 1
       /\ ~sum_results[1].result.raised /\ sum_results[1].result.success
       /\ ~sum_results[2].result.raised /\ sum_results[2].result.success
       /\ Truthy(sum_results[1].result.summary)
       /\ sum_results[2].result.summary = sum_results[1].result.summary

\* ========================================================================
\* Cancellation, failure and the read-only requests (checked under Spec)
\* ========================================================================
InLoop(t) == task_pc[t] \in {"streaming", "sending_token"}

\* the step is one of task t's own steps
TaskStep(t) == task_pc[t] # "none" /\ task_pc'[t] # task_pc[t]

\* C17: once cancel is requested on the session of a generation that is in
\* its token loop, every step of that generation other than the upstream
\* raising leads to the cancelled completion: the step that takes the next
\* item or meets the end of the stream sends complete with cancelled = true,
\* and no step of the generation sends an error event.
C17_CancellationNotAnError ==
  [][\A t \in Tasks :
       (sess[t].cancel_requested /\ InLoop(t) /\ TaskStep(t)
          /\ task_pc'[t] # "sending_error")
         => /\ task_pc[t] = "sending_token" =>
                 /\ task_pc'[t] = "streaming"
                 /\ events' # events => Last(events').type = "status"
            /\ task_pc[t] = "streaming" =>
                 /\ task_pc'[t] = "sending_cancelled"
                 /\ events' = Append(events, CompleteEvent(sess[t], TRUE))]_vars

C17_Witness ==
  \E t \in Tasks :
    /\ task_pc[t] = "done"
    /\ sess[t].cancel_requested
    /\ Len(upstream[t]) = 1
    /\ TakenAfterCancel(t) = {}
    /\ CancelledComplete(Last(events))
    /\ Last(events).message_id = t
    /\ Last(events).token_count = 1
    /\ \A i \in 1..Len(events) : events[i].type # "error"

\* C18: when the provider is not connected, a generation that was started
\* sends nothing but error events: its stream raises before any token, the
\* except clause sends the error event, no step of the generation sends a
\* token or a complete event, and the generation ends through the error exit
\* with no entry left for its conversation in the live table.
C18_UpstreamUnavailable ==
  [][\A t \in Tasks :
       (~connected /\ TaskStep(t))
         => /\ task_pc'[t] \in {"streaming", "sending_not_found", "sending_error", "done"}
            /\ events' # events => Last(events').type = "error"
            /\ task_pc[t] = "streaming" =>
                 events' = Append(events, ErrorEvent("streaming_error"))
            /\ task_pc'[t] = "done" =>
                 /\ task_pc[t] \in {"sending_not_found", "sending_error"}
                 /\ ~InTable(streaming_sessions', task_conv[t])]_vars

C18_Witness ==
  \E t \in Tasks :
    /\ ~connected
    /\ task_pc[t] = "done"
    /\ get_session(task_conv[t]).found
    /\ upstream[t] = <<>>
    /\ \E i \in 1..Len(events) : events[i] = ErrorEvent("streaming_error")
    /\ \A i \in 1..Len(events) : events[i].type \notin {"token", "complete"}
    /\ ~InTable(streaming_sessions, task_conv[t])

\* the live table holds a session for the conversation the connection addresses
Addressed == handler_session_id # NoConv /\ InTable(streaming_sessions, handler_session_id)

\* the step is websocket_handler answering a cancel_stream message
CancelStep ==
  /\ n_requests' = n_requests + 1
  /\ events' # events
  /\ \/ CancelledComplete(Last(events'))
     \/ Last(events') = ErrorEvent("no_active_stream")

StatusStep ==
  /\ n_requests' = n_requests + 1
  /\ events' # events
  /\ Last(events').type = "status"

\* C20: a get_status request changes neither the live table nor any field of
\* any session (nor any task or the store); its status event reports the
\* live session's is_streaming and token_count when the addressed
\* conversation has one, and otherwise is_streaming = false, token_count = 0
\* and empty content.
C20_StatusReadOnly ==
  [][StatusStep =>
       /\ UNCHANGED <<streaming_sessions, sess, task_pc, task_conv, task_content,
                      n_tasks, handler_session_id, db_sessions, db_messages,
                      upstream, connected>>
       /\ Last(events').session_id = handler_session_id
       /\ IF Addressed
          THEN /\ Last(events').is_streaming = Entry(handler_session_id).is_streaming
               /\ Last(events').token_count = Entry(handler_session_id).token_count
          ELSE /\ ~Last(events').is_streaming
               /\ Last(events').token_count = 0
               /\ Last(events').accumulated_content = <<>>]_vars

C20_Witness ==
  \E t \in Tasks :
    /\ InLoop(t)
    /\ streaming_sessions[task_conv[t]] = t
    /\ sess[t].token_count = 1
    /\ Last(events).type = "status"
    /\ Last(events).is_streaming
    /\ Last(events).token_count = 1
    /\ Last(events).accumulated_content = sess[t].accumulated_content

\* the sequence of (role, content) of a turn set
RolesAndContents(messages) ==
  [i \in 1..Len(messages) |-> <<messages[i].role, messages[i].content>>]

\* number of generate calls made before the j-th summarization
CallsBefore(j) == IF j = 1 THEN 0 ELSE sum_results[j - 1].result.calls

\* the j-th summarization was answered from the cache
CacheHit(j) ==
  /\ sum_results[j].messages # <<>>
  /\ ~sum_results[j].result.raised
  /\ sum_results[j].result.success
  /\ sum_results[j].result.calls = CallsBefore(j)

\* the i-th summarization called the generator and got a summary
Generated(i) ==
  /\ ~sum_results[i].result.raised
  /\ sum_results[i].result.success
  /\ sum_results[i].result.calls = CallsBefore(i) + 1

PersistedAssistant(c, content) ==
  \E i \in 1..Len(db_messages[c]) :
    /\ db_messages[c][i].role = "assistant"
    /\ db_messages[c][i].content = content

\* C21: every generation that has ended, whichever way (end of stream,
\* upstream error, cancellation), having accumulated some text, has appended
\* that text to its conversation as an assistant turn in the store.
C21_TurnFinalization ==
  \A t \in Tasks :
    (task_pc[t] = "done" /\ sess[t].accumulated_content # <<>>)
      => PersistedAssistant(task_conv[t], sess[t].accumulated_content)

\* ========================================================================
\* Empty input, turn cost, window selection (checked under SpecCB)
\* ========================================================================
\* C22: count_tokens of the empty text is 0, and build_context on an empty
\* turn list returns (never raises) a context with no turns,
\* was_summarized = false, no summary and no generator call, for every
\* system prompt and configuration.
C22_EmptyInputNeverRaises ==
  /\ count_tokens(<<>>) = 0
  /\ (Built /\ cb_messages = <<>>)
       => /\ ~cb_result.raised
          /\ cb_result.messages = <<>>
          /\ ~cb_result.was_summarized
          /\ cb_result.summary = NoneText
          /\ cb_calls = 0
          /\ cb_result.total_tokens = system_prompt_tokens(cb_system_prompt)

C22_Witness ==
  /\ Built /\ cb_messages = <<>>
  /\ system_prompt_tokens(cb_system_prompt) > Budget
  /\ cb_config.enable_summarization /\ GeneratorSucceeds
  /\ ~cb_result.raised
  /\ cb_result.messages = <<>>
  /\ cb_result.total_tokens > Budget

\* C23: for a turn that carries a precomputed non-zero token_count,
\* count_message_tokens returns that value.
C23_CachedTokenCount ==
  Built =>
    \A i \in 1..Len(cb_messages) :
      cb_messages[i].token_count # 0
        => count_message_tokens(cb_messages[i]) = cb_messages[i].token_count

\* the last n turns of a sequence
SuffixOf(messages, n) == SubSeq(messages, Len(messages) - n + 1, Len(messages))

Available == Budget - system_prompt_tokens(cb_system_prompt)

\* the lengths of the suffixes of the input whose summed cost fits
FittingLengths ==
  {n \in 0..Len(cb_messages) :
     SumMessageTokens(SuffixOf(cb_messages, n)) <= Available}

\* what the window keeps before the turn-count cap
WindowBeforeCap == KeepNewest(cb_messages, Available)

\* C24: before the turn-count cap the window is exactly the longest suffix of
\* the input whose summed turn cost is <= max_tokens - cost(system_prompt)
\* (empty when no suffix fits): it stops at the first turn that would
\* overflow, and the kept turns are input turns, unmodified and in order.
C24_SlidingWindowSelection ==
  Built =>
    /\ IsSuffix(WindowBeforeCap, cb_messages)
    /\ Len(WindowBeforeCap) \in FittingLengths \cup {0}
    /\ \A n \in FittingLengths : n <= Len(WindowBeforeCap)
    /\ Len(WindowBeforeCap) < Len(cb_messages) =>
         SumMessageTokens(SuffixOf(cb_messages, Len(WindowBeforeCap) + 1)) > Available
    /\ (OverBudget /\ Len(WindowBeforeCap) <= cb_config.max_messages_before_summary
          /\ Available >= 0)
         => (~cb_result.raised /\ cb_result.messages = WindowBeforeCap)

C24_Witness ==
  /\ Built /\ OverBudget
  /\ Len(cb_messages) = 3
  /\ Len(WindowBeforeCap) = 2
  /\ Truthy(cb_system_prompt)
  /\ SumMessageTokens(WindowBeforeCap) = Available
  /\ cb_result.messages = WindowBeforeCap
  /\ cb_result.messages[1] # cb_result.messages[2]

\* C25: for every max_messages_before_summary >= 0 the window
\* _apply_sliding_window returns (for an input over the budget) has at most
\* that many turns, and they are the newest turns of the input.
C25_TurnCountCap ==
  (Built /\ OverBudget /\ cb_config.max_messages_before_summary >= 0)
    => /\ Len(WindowedMessages) <= cb_config.max_messages_before_summary
       /\ IsSuffix(WindowedMessages, cb_messages)

\* ========================================================================
\* The summarization path (checked under SpecPath)
\* ========================================================================
PathDone == cb_pc \in {"summarized", "formatted"}

PathReturned == PathDone /\ ~cb_result.raised

\* the recent set _build_with_summarization selects before any trimming
RecentSet ==
  KeepNewest(cb_messages,
             Budget - system_prompt_tokens(cb_system_prompt)
                    - cb_config.min_preserved_tokens)

OlderSet == OlderMessages(cb_messages, RecentSet)

Formatted == cb_pc = "formatted"

\* one segment per turn of the context, in the context's order
TurnSegments(messages) ==
  Flatten([i \in 1..Len(messages) |->
             ChatMLSegment(messages[i].role, messages[i].content)])

\* number of segments opened in a prompt
RECURSIVE SegmentCount(_)
SegmentCount(text) ==
  IF text = <<>> THEN 0
  ELSE (IF Head(text) = "<|im_start|>" THEN 1 ELSE 0) + SegmentCount(Tail(text))

RECURSIVE InOrderWithin(_, _)
InOrderWithin(s, full) ==
  IF s = <<>> THEN TRUE
  ELSE IF full = <<>> THEN FALSE
  ELSE IF Head(s) = Head(full) THEN InOrderWithin(Tail(s), Tail(full))
  ELSE InOrderWithin(s, Tail(full))

\* the context's first turn is the synthetic turn holding its summary
SummaryTurnFirst ==
  /\ cb_result.messages # <<>>
  /\ cb_result.messages[1].role = "system"
  /\ cb_result.messages[1].content = SummaryPrefix \o cb_result.summary.text

\* C31: a returned context has was_summarized = true if and only if it has a
\* non-empty summary; exactly then its first turn is a synthetic system-role
\* turn holding the summary, and the turns after it are original turns in
\* their original order; without a summary all turns are original turns in
\* order. The system prompt is not merged with the summary: it is charged
\* by itself in total_tokens and is no turn of the context.
C31_SummaryPlacement ==
  PathReturned =>
    /\ cb_result.was_summarized <=> Truthy(cb_result.summary)
    /\ cb_result.was_summarized <=> (cb_result.messages # <<>> /\ IsSummaryTurn(cb_result.messages[1]))
    /\ cb_result.was_summarized =>
         (SummaryTurnFirst /\ InOrderWithin(Tail(cb_result.messages), cb_messages))
    /\ ~cb_result.was_summarized => InOrderWithin(cb_result.messages, cb_messages)
    /\ cb_result.total_tokens =
         system_prompt_tokens(cb_system_prompt) + SumMessageTokens(cb_result.messages)
    /\ \A i \in 1..Len(cb_result.messages) :
         Truthy(cb_system_prompt) => cb_result.messages[i].content # cb_system_prompt.text

C31_Witness ==
  /\ PathReturned
  /\ cb_result.was_summarized
  /\ Truthy(cb_system_prompt)
  /\ Len(cb_result.messages) >= 2
  /\ Len(cb_messages) = MaxMsgs
  /\ SummaryTurnFirst

\* ========================================================================
\* Status cadence of the streaming loop (checked under SpecLoop)
\* ========================================================================
\* the step is the one task t takes when the send of a token event returns
TokenSentStep(t) == task_pc[t] = "sending_token" /\ TaskStep(t)

\* the number of token events sent so far for generation t
TokensSentFor(t) == Len(TokenEventsOf(t, Len(events)))

\* C32: the step of the streaming loop that follows the send of a token event
\* sends a status event exactly when the token brought token_count to a
\* multiple of 10, and the status event reports token_count equal to the
\* number of token events sent so far for the generation; no other step of
\* the loop sends a status event.
C32_StatusCadence ==
  [][\A t \in Tasks :
       /\ TokenSentStep(t) =>
            IF TokensSentFor(t) % 10 = 0
            THEN /\ Len(events') = Len(events) + 1
                 /\ Last(events').type = "status"
                 /\ Last(events').is_streaming
                 /\ Last(events').session_id = task_conv[t]
                 /\ Last(events').token_count = TokensSentFor(t)
            ELSE events' = events
       /\ (TaskStep(t) /\ ~TokenSentStep(t) /\ events' # events)
            => Last(events').type # "status"]_vars

C32_Witness ==
  \E i, j \in 1..Len(events) :
    /\ i < j
    /\ events[i].type = "status" /\ events[i].token_count = 10
    /\ events[j].type = "status" /\ events[j].token_count = 20
    /\ Last(events).type = "token" /\ Last(events).token_index = 20
    /\ \A k \in 1..Len(events) : events[k].type \in {"status", "token"}
    /\ Cardinality({k \in 1..Len(events) : events[k].type = "status"}) = 2

\* ========================================================================
\* Costing of the turns of a context (checked under SpecPath)
\* ========================================================================
\* what turn i of the returned context was charged against the budget when
\* the context was put together: an original turn its count_message_tokens
\* (the selection and trimming walks), the summary turn SummaryTokens
ChargedCost(i) ==
  IF cb_result.was_summarized /\ i = 1 THEN SummaryTokens(cb_result.summary)
  ELSE count_message_tokens(cb_result.messages[i])

C34_OverBudgetOnlyBySystemPrompt ==
  Built =>
    /\ (~cb_result.raised /\ cb_result.total_tokens > cb_result.max_tokens)
         => (Truthy(cb_system_prompt) /\ count_tokens(cb_system_prompt.text) + 3 > Budget)
    /\ ~(Truthy(cb_system_prompt) /\ count_tokens(cb_system_prompt.text) + 3 > Budget)
         => (~cb_result.raised /\ cb_result.total_tokens <= Budget)

C34_Witness ==
  /\ Returned
  /\ cb_result.total_tokens > cb_result.max_tokens
  /\ count_tokens(cb_system_prompt.text) + 3 > Budget
  /\ cb_messages # <<>>
  /\ cb_result.max_tokens > 0

\* ========================================================================
\* Terminal events of a generation (checked under Spec)
\* ========================================================================
\* the complete events sent for generation t
CompleteEventsOf(t) ==
  {i \in 1..Len(events) : events[i].type = "complete" /\ events[i].message_id = t}

\* the error events generation tasks send (they carry no message_id)
TaskErrorEvents ==
  {i \in 1..Len(events) :
     events[i].type = "error"
       /\ events[i].error \in {"streaming_error", "session_not_found"}}

\* the generation tasks that have run their first step
StartedTasks == {t \in Tasks : task_pc[t] \notin {"none", "scheduled"}}

RECURSIVE SumOver(_, _)
SumOver(f, S) ==
  IF S = {} THEN 0
  ELSE LET x == CHOOSE y \in S : TRUE IN f[x] + SumOver(f, S \ {x})

\* C35: for each started generation at most one terminal event is sent to
\* the client, and exactly one once its task has ended: one complete event or
\* one error event, never two and never both, under every interleaving of
\* cancel requests with the streaming task.
C35_OneTerminalEvent ==
  LET completes == [t \in Tasks |-> Cardinality(CompleteEventsOf(t))]
      terminals == SumOver(completes, Tasks) + Cardinality(TaskErrorEvents)
  IN /\ \A t \in Tasks : completes[t] <= 1
     /\ terminals <= Cardinality(StartedTasks)
     /\ (\A t \in StartedTasks : task_pc[t] = "done")
          => terminals = Cardinality(StartedTasks)

\* ========================================================================
\* The live table while a generation runs (checked under Spec)
\* ========================================================================
\* C36: while a generation task is running (from registering its session
\* until its cleanup), the live table's entry for its conversation is that
\* task's own session; in particular no other task's start replaces it and no
\* other task's cleanup removes it.
C36_OwnEntryWhileRunning ==
  \A t \in Tasks :
    Running(t) =>
      /\ InTable(streaming_sessions, task_conv[t])
      /\ streaming_sessions[task_conv[t]] = t

\* ========================================================================
\* What a normal end reports and stores (checked under Spec)
\* ========================================================================
\* the step in which task t meets the end of its stream without a cancel
NormalEndStep(t) == task_pc[t] = "streaming" /\ task_pc'[t] = "sending_complete"

\* C37: when a generation ends normally, the complete event's
\* accumulated_content and the content of the assistant turn stored for the
\* conversation both equal the in-order concatenation of the texts of the
\* token events sent for that message_id, and the complete event's
\* token_count equals the number of those token events.
C37_NormalEndContent ==
  [][\A t \in Tasks :
       NormalEndStep(t) =>
         LET sent == TokenEventsOf(t, Len(events))
             stored == Last(db_messages'[task_conv[t]])
         IN /\ Len(events') = Len(events) + 1
            /\ Last(events').type = "complete"
            /\ ~Last(events').cancelled
            /\ Last(events').message_id = t
            /\ Last(events').accumulated_content = ConcatTokens(sent)
            /\ Last(events').token_count = Len(sent)
            /\ Len(db_messages'[task_conv[t]]) = Len(db_messages[task_conv[t]]) + 1
            /\ stored.role = "assistant"
            /\ stored.content = ConcatTokens(sent)]_vars

C37_Witness ==
  \E t \in Tasks :
    /\ task_pc[t] = "sending_complete"
    /\ Last(events).type = "complete" /\ ~Last(events).cancelled
    /\ Last(events).message_id = t
    /\ Last(events).accumulated_content = <<"x", "y">>
    /\ Last(events).token_count = 2
    /\ Last(db_messages[task_conv[t]]).content = <<"x", "y">>
    /\ n_tasks = 2

\* ========================================================================
\* The turns handed to build_context (checked under SpecHistory)
\* ========================================================================
\* the step in which task t reads the store and builds its context
ContextStep(t) == task_pc[t] = "scheduled" /\ task_pc'[t] = "streaming"

RoleAndContent(m) == [role |-> m.role, content |-> m.content]

\* C38: the turn sequence a generation hands to build_context is the
\* complete stored history of its conversation in order, followed by the new
\* user turn as the newest turn, whatever the length of the history.
C38_WholeHistoryHandedOver ==
  [][\A t \in Tasks :
       ContextStep(t) =>
         LET stored == db_messages[task_conv[t]]
             handed == last_context'
         IN /\ Len(handed) = Len(stored) + 1
            /\ \A i \in 1..Len(stored) :
                 i <= Len(handed) => RoleAndContent(handed[i]) = RoleAndContent(stored[i])
            /\ RoleAndContent(Last(handed)) =
                 [role |-> "user", content |-> task_content[t]]]_vars

\* ========================================================================
\* The prompt handed to the model (checked under Spec)
\* ========================================================================
StartsWith(text, prefix) ==
  Len(text) >= Len(prefix) /\ SubSeq(text, 1, Len(prefix)) = prefix

\* C39: whenever a generation builds its context for a conversation with a
\* non-empty system prompt (for which build_context reserves tokens), the
\* prompt it hands to the model's stream begins with a system segment
\* holding that system prompt.
C39_PromptHoldsSystemPrompt ==
  [][\A t \in Tasks :
       (ContextStep(t) /\ Truthy(get_session(task_conv[t]).system_prompt))
         => /\ last_prompt'.some
            /\ StartsWith(last_prompt'.text,
                 <<"<|im_start|>", "system", "\n">>
                   \o get_session(task_conv[t]).system_prompt.text
                   \o <<"<|im_end|>", "\n">>)]_vars
====
